---- MODULE Spec2Model ----
(***************************************************************************)
(* const-chunks: an iterator adaptor that regroups the items of an inner   *)
(* iterator into arrays of N items (ConstChunks), a panic guard that drops *)
(* the items placed so far when a pull unwinds (ChunkPanicGuard), and the  *)
(* iterator over the items that could not fill a chunk                     *)
(* (ConstChunksRemainder).                                                 *)
(*                                                                         *)
(* The inner iterator is the environment.  Its behaviour is a script fixed *)
(* in the initial state: what each successive call of inner.next() does,   *)
(* yield an item, yield None, or panic.  The item yielded by the p-th call *)
(* is identified by p, so that every item is distinct and its position in  *)
(* the input is known.  A run observes at most Len(script) pulls.          *)
(***************************************************************************)
EXTENDS Integers, Sequences, FiniteSets

\* Largest chunk size N explored (N = 0 is the rejected size).
MaxN == 3
\* Largest number of calls of inner.next() a run observes.
MaxPulls == 6
\* Largest bound the inner iterator's size_hint reports.
MaxHint == 7

\* A slot of [MaybeUninit<T>; N] that holds no live item.
Uninit == 0

\* What one call of inner.next() can do.
PullKinds == {"item", "none", "panic"}

VARIABLES
    N,            \* the const generic chunk size
    script,       \* inner: what each call of inner.next() does
    pos,          \* inner: number of calls of inner.next() made so far
    phase,        \* the ConstChunks value: "unbuilt", "rejected", "live", "consumed", "dropped"
    remainder,    \* ConstChunks::remainder
    pc,           \* position inside ConstChunks::next: "idle", "loop", "full"
    array,        \* next's local array of MaybeUninit slots
    armed,        \* a ChunkPanicGuard over array is live
    initialized,  \* ChunkPanicGuard::initialized
    i,            \* next's loop variable
    taken,        \* the items pulled by the call of next in progress, in order
    ret,          \* the call of next: "-" (none yet), "running", "Some", "None", "Panic"
    ended,        \* next has returned None at least once
    chunks,       \* the chunks next has returned, in order
    rem,          \* the value into_remainder returned
    remPhase,     \* "unclaimed", "none", "held", "dropped"
    remOut,       \* the items the remainder's next has returned, in order
    remRet,       \* what the last call of the remainder's next did: "-", "Some", "None"
    dropped,      \* per item, the number of times it has been dropped in place
    ub            \* assume_init_drop has been called on a slot that holds no item

vars == <<N, script, pos, phase, remainder, pc, array, armed, initialized, i,
          taken, ret, ended, chunks, rem, remPhase, remOut, remRet, dropped, ub>>

prodVars == <<remainder, pc, array, armed, initialized, i, taken, ret, ended, chunks>>
remVars == <<rem, remPhase, remOut, remRet>>

\* The indices of an array of N slots.
Slots == 0 .. (N - 1)

\* MaybeUninit::uninit().assume_init(): an array of N slots holding nothing.
UninitArray == [j \in Slots |-> Uninit]

\* Option::None of ConstChunksRemainder.
NoRemainder ==
    [some |-> FALSE, remainder_chunk |-> UninitArray, start |-> 0, end |-> 0]

\* Mutant: the range reaches one slot past the last item placed.
NewRemainder_long(arr, upto) ==
    [some |-> TRUE, remainder_chunk |-> arr, start |-> 0, end |-> upto + 1]

\* Mutant: the range stops one short of the last item placed.
NewRemainder_short(arr, upto) ==
    [some |-> TRUE, remainder_chunk |-> arr, start |-> 0, end |-> upto - 1]

\* ConstChunksRemainder { remainder_chunk: array, init_range: 0..i }
NewRemainder(arr, upto) ==
    [some |-> TRUE, remainder_chunk |-> arr, start |-> 0, end |-> upto]

\* Range<usize> start..end as a set of indices.
Range(lo, hi) == { j \in Slots : lo <= j /\ j < hi }

\* drop_slice: every slot of slice[range] is dropped in place.
drop_slice(counts, slice, range) ==
    [id \in DOMAIN counts |->
        counts[id] + Cardinality({ j \in range : slice[j] = id })]

\* drop_slice's safety condition is broken: a slot of the range holds no item.
DropsUninit(slice, range) == \E j \in range : slice[j] = Uninit

\* Mutant: the guard drops nothing.
GuardDropRange_none(init) == {}

\* Mutant: the guard drops every slot of the slice, filled or not.
GuardDropRange_whole(init) == Range(0, N)

\* ChunkPanicGuard::drop: the slots of slice[..initialized].
GuardDropRange(init) == Range(0, init)

\* Mutant: the remainder drops from slot 0, whatever was moved out.
RemainderDropRange_fromzero(r) == Range(0, r.end)

\* ConstChunksRemainder::drop: the slots of remainder_chunk[init_range].
RemainderDropRange(r) == Range(r.start, r.end)

\* Mutant: a remainder is destroyed without dropping its items.
DropRemainderCounts_leak(counts, r) == counts

\* Dropping an Option<ConstChunksRemainder>: None drops nothing.
DropRemainderCounts(counts, r) ==
    IF r.some THEN drop_slice(counts, r.remainder_chunk, RemainderDropRange(r))
    ELSE counts

DropRemainderUb(r) ==
    r.some /\ DropsUninit(r.remainder_chunk, RemainderDropRange(r))

\* Mutant: the item is written one slot past `initialized`.
init_next_unchecked_after(slice, init, item) == [slice EXCEPT ![init + 1] = item]

\* Mutant: the item is always written into slot 0.
init_next_unchecked_slot0(slice, init, item) == [slice EXCEPT ![0] = item]

\* ChunkPanicGuard::init_next_unchecked: write the item into slot
\* `initialized` (the caller then adds one to `initialized`).
init_next_unchecked(slice, init, item) == [slice EXCEPT ![init] = item]

\* Mutant: the assertion lets N = 0 through.
N_GT_ZERO_any == N >= 0

\* N_GT_ZERO: assert!(N > 0, "chunk size must be non-zero")
N_GT_ZERO == N > 0

\* inner.next(): what the next pull does, and the item it yields.
PullKind == script[pos + 1]
PullItem == pos + 1

Init ==
    /\ N \in 0 .. MaxN
    /\ script \in UNION { [1 .. len -> PullKinds] : len \in 0 .. MaxPulls }
    /\ pos = 0
    /\ phase = "unbuilt"
    /\ remainder = NoRemainder
    /\ pc = "idle"
    /\ array = UninitArray
    /\ armed = FALSE
    /\ initialized = 0
    /\ i = 0
    /\ taken = << >>
    /\ ret = "-"
    /\ ended = FALSE
    /\ chunks = << >>
    /\ rem = NoRemainder
    /\ remPhase = "unclaimed"
    /\ remOut = << >>
    /\ remRet = "-"
    /\ dropped = [id \in 1 .. Len(script) |-> 0]
    /\ ub = FALSE

\* Mutant: the value is built holding an empty remainder.
InitialRemainder_empty == NewRemainder(UninitArray, 0)

\* ConstChunks { inner: self, remainder: None }
InitialRemainder == NoRemainder

\* IteratorConstChunks::const_chunks::<N>(): the size is checked, then the
\* value is built; the inner iterator is not touched.
ConstChunksNew ==
    /\ phase = "unbuilt"
    /\ phase' = IF N_GT_ZERO THEN "live" ELSE "rejected"
    /\ remainder' = InitialRemainder
    /\ UNCHANGED <<N, script, pos, pc, array, armed, initialized, i, taken, ret,
                   ended, chunks, dropped, ub>>
    /\ UNCHANGED remVars

\* Mutant: the guard is not forgotten and runs its drop at the return.
forget_missing(guardArmed) == guardArmed

\* core::mem::forget(guard): whether the guard is still armed afterwards.
forget(guardArmed) == FALSE

\* Mutant: the loop runs one iteration too many.
InLoopRange_long(k) == 1 <= k /\ k <= N

\* Mutant: the loop stops one iteration early.
InLoopRange_short(k) == 1 <= k /\ k < N - 1

\* for i in 1..N: whether k is a value the loop variable takes.
InLoopRange(k) == 1 <= k /\ k < N

\* Mutant: the early return clears self.remainder without dropping it.
EarlyReturnRemainder_reset(r) == NoRemainder

\* `let Some(first_item) = self.inner.next() else { return None; }`: what
\* the early return leaves in self.remainder.
EarlyReturnRemainder(r) == r

\* ConstChunks::next, up to the first pull: an empty inner iterator returns
\* None at once; otherwise the array and the guard are created and the first
\* item is placed.  A panic of inner.next() unwinds with no guard live.
NextFirst ==
    /\ phase = "live" /\ pc = "idle"
    /\ pos < Len(script)
    /\ pos' = pos + 1
    /\ CASE PullKind = "none" ->
              /\ ret' = "None"
              /\ ended' = TRUE
              /\ remainder' = EarlyReturnRemainder(remainder)
              /\ UNCHANGED <<pc, array, armed, initialized, i, taken>>
         [] PullKind = "panic" ->
              /\ ret' = "Panic"
              /\ UNCHANGED <<pc, array, armed, initialized, i, taken, ended,
                             remainder>>
         [] PullKind = "item" ->
              /\ array' = init_next_unchecked(UninitArray, 0, PullItem)
              /\ initialized' = 0 + 1
              /\ armed' = TRUE
              /\ i' = 1
              /\ taken' = <<PullItem>>
              /\ pc' = IF InLoopRange(1) THEN "loop" ELSE "full"
              /\ ret' = "running"
              /\ UNCHANGED <<ended, remainder>>
    /\ UNCHANGED <<N, script, phase, chunks, dropped, ub>>
    /\ UNCHANGED remVars

\* ConstChunks::next, one iteration of `for i in 1..N`.  When the inner
\* iterator yields None the guard is forgotten, the array moves into
\* self.remainder with init_range 0..i (the assignment drops the remainder
\* stored before) and next returns None.  When inner.next() panics the guard
\* is dropped by the unwinding.  Otherwise the item is placed.
NextLoop ==
    /\ phase = "live" /\ pc = "loop"
    /\ pos < Len(script)
    /\ pos' = pos + 1
    /\ CASE PullKind = "none" ->
              LET stillArmed == forget(armed)
                  afterAssign == DropRemainderCounts(dropped, remainder)
                  guardRange == GuardDropRange(initialized)
              IN  /\ remainder' = NewRemainder(array, i)
                  /\ dropped' = IF stillArmed
                                THEN drop_slice(afterAssign, array, guardRange)
                                ELSE afterAssign
                  /\ ub' = (ub \/ DropRemainderUb(remainder)
                               \/ (stillArmed /\ DropsUninit(array, guardRange)))
                  /\ armed' = FALSE
                  /\ array' = UninitArray
                  /\ initialized' = 0
                  /\ i' = 0
                  /\ ret' = "None"
                  /\ ended' = TRUE
                  /\ pc' = "idle"
                  /\ taken' = << >>
         [] PullKind = "panic" ->
              LET guardRange == GuardDropRange(initialized)
              IN  /\ dropped' = IF armed
                                THEN drop_slice(dropped, array, guardRange)
                                ELSE dropped
                  /\ ub' = (ub \/ (armed /\ DropsUninit(array, guardRange)))
                  /\ armed' = FALSE
                  /\ array' = UninitArray
                  /\ initialized' = 0
                  /\ i' = 0
                  /\ ret' = "Panic"
                  /\ pc' = "idle"
                  /\ taken' = << >>
                  /\ UNCHANGED <<remainder, ended>>
         [] PullKind = "item" ->
              /\ array' = init_next_unchecked(array, initialized, PullItem)
              /\ initialized' = initialized + 1
              /\ i' = i + 1
              /\ taken' = Append(taken, PullItem)
              /\ pc' = IF InLoopRange(i + 1) THEN "loop" ELSE "full"
              /\ UNCHANGED <<remainder, dropped, ub, armed, ret, ended>>
    /\ UNCHANGED <<N, script, phase, chunks>>
    /\ UNCHANGED remVars

\* ConstChunks::next after the loop: the guard is forgotten, the array is
\* read as [I::Item; N] and returned.
NextReturn ==
    /\ phase = "live" /\ pc = "full"
    /\ LET stillArmed == forget(armed)
           guardRange == GuardDropRange(initialized)
       IN  /\ dropped' = IF stillArmed
                         THEN drop_slice(dropped, array, guardRange)
                         ELSE dropped
           /\ ub' = (ub \/ (stillArmed /\ DropsUninit(array, guardRange)))
    /\ chunks' = Append(chunks, array)
    /\ armed' = FALSE
    /\ array' = UninitArray
    /\ initialized' = 0
    /\ i' = 0
    /\ ret' = "Some"
    /\ pc' = "idle"
    /\ taken' = << >>
    /\ UNCHANGED <<N, script, pos, phase, remainder, ended>>
    /\ UNCHANGED remVars

\* ConstChunks::into_remainder: consumes self and returns self.remainder.
into_remainder ==
    /\ phase = "live" /\ pc = "idle"
    /\ phase' = "consumed"
    /\ rem' = remainder
    /\ remPhase' = IF remainder.some THEN "held" ELSE "none"
    /\ remainder' = NoRemainder
    /\ UNCHANGED <<N, script, pos, pc, array, armed, initialized, i, taken, ret,
                   ended, chunks, remOut, remRet, dropped, ub>>

\* The ConstChunks value goes out of scope: its remainder field is dropped.
DropConstChunks ==
    /\ phase = "live" /\ pc = "idle"
    /\ phase' = "dropped"
    /\ dropped' = DropRemainderCounts(dropped, remainder)
    /\ ub' = (ub \/ DropRemainderUb(remainder))
    /\ remainder' = NoRemainder
    /\ UNCHANGED <<N, script, pos, pc, array, armed, initialized, i, taken, ret,
                   ended, chunks>>
    /\ UNCHANGED remVars

\* Mutant: a range of one item counts as empty.
is_empty_offbyone(r) == ~(r.start + 1 < r.end)

\* Range::is_empty
is_empty(r) == ~(r.start < r.end)

\* Mutant: the item is moved out but init_range.start is not incremented.
take_next_stuck(r) == [r EXCEPT !.remainder_chunk[r.start] = Uninit]

\* ConstChunksRemainder::next, the closure: mem::replace leaves the slot at
\* init_range.start uninitialized, then init_range.start += 1.
take_next(r) ==
    [r EXCEPT !.remainder_chunk[r.start] = Uninit, !.start = r.start + 1]

\* ConstChunksRemainder::next: the item at init_range.start is moved out (the
\* slot is left uninitialized) and init_range.start is incremented; None when
\* init_range is empty.
RemainderNext ==
    /\ remPhase = "held"
    /\ IF ~is_empty(rem)
       THEN /\ remOut' = Append(remOut, rem.remainder_chunk[rem.start])
            /\ ub' = (ub \/ rem.remainder_chunk[rem.start] = Uninit)
            /\ rem' = take_next(rem)
            /\ remRet' = "Some"
       ELSE /\ remRet' = "None"
            /\ UNCHANGED <<rem, remOut, ub>>
    /\ UNCHANGED <<N, script, pos, phase, remPhase, dropped>>
    /\ UNCHANGED prodVars

\* ConstChunksRemainder::drop
RemainderDrop ==
    /\ remPhase = "held"
    /\ dropped' = DropRemainderCounts(dropped, rem)
    /\ ub' = (ub \/ DropRemainderUb(rem))
    /\ rem' = NoRemainder
    /\ remPhase' = "dropped"
    /\ UNCHANGED <<N, script, pos, phase, remOut, remRet>>
    /\ UNCHANGED prodVars

\* Option<usize>: None, and Some(n).
NoneUsize == [some |-> FALSE, val |-> 0]
SomeUsize(n) == [some |-> TRUE, val |-> n]

\* Mutant: the bounds are divided rounding up.
size_hint_ceil(lower, upper) ==
    [lower |-> (lower + N - 1) \div N,
     upper |-> IF upper.some THEN SomeUsize((upper.val + N - 1) \div N) ELSE upper]

\* ConstChunks::size_hint, for (lower, upper) = self.inner.size_hint():
\* (lower / N, upper.map(|upper| upper / N))
size_hint(lower, upper) ==
    [lower |-> lower \div N,
     upper |-> IF upper.some THEN SomeUsize(upper.val \div N) ELSE upper]

\* self.inner.len() of an ExactSizeIterator over a finite sequence: the
\* number of items it has yet to yield.
inner_len == Cardinality({ p \in (pos + 1) .. Len(script) : script[p] = "item" })

\* Mutant: the length is divided rounding up.
ConstChunks_len_ceil(innerLen) == (innerLen + N - 1) \div N

\* ExactSizeIterator::len for ConstChunks: self.inner.len() / N
ConstChunks_len(innerLen) == innerLen \div N

Next ==
    \/ ConstChunksNew
    \/ NextFirst
    \/ NextLoop
    \/ NextReturn
    \/ into_remainder
    \/ DropConstChunks
    \/ RemainderNext
    \/ RemainderDrop

Spec == Init /\ [][Next]_vars

(***************************************************************************)
(* Properties                                                              *)
(***************************************************************************)

\* The inner iterator is a finite sequence: it yields items, then None for
\* ever, and never panics.
PlainInput ==
    /\ \A p \in 1 .. Len(script) : script[p] # "panic"
    /\ \A p, q \in 1 .. Len(script) :
          (p < q /\ script[p] = "none") => script[q] = "none"

\* The length L of the input sequence.
InputLen == Cardinality({ p \in 1 .. Len(script) : script[p] = "item" })

\* The items of a sequence of items, as a set.
ItemsOf(seq) == { seq[k] : k \in 1 .. Len(seq) }

\* The sequence lo, lo + 1, ..., hi.
Interval(lo, hi) == [k \in 1 .. (hi - lo + 1) |-> lo + k - 1]

\* The items of all the chunks returned, in order.
RECURSIVE Flatten(_)
Flatten(cs) ==
    IF cs = << >> THEN << >>
    ELSE Flatten(SubSeq(cs, 1, Len(cs) - 1))
            \o [k \in 1 .. N |-> cs[Len(cs)][k - 1]]

\* The items a remainder still holds, in order.
Held(r) == [k \in 1 .. (r.end - r.start) |-> r.remainder_chunk[r.start + k - 1]]

\* C1: when inner.next() panics on the pull that would fill the k-th slot of
\* the chunk in progress, the unwinding drops exactly the k-1 items placed so
\* far, each once, drops no empty slot, leaves the items of the chunks
\* already returned and the stored remainder alone, and next ends by the
\* panic, not by a value.
C1_PanicDropsPlaced ==
    [][(phase = "live" /\ pos < Len(script) /\ pos' = pos + 1
            /\ script[pos + 1] = "panic")
        => /\ dropped' = [id \in DOMAIN dropped |->
                             dropped[id] + (IF id \in ItemsOf(taken) THEN 1 ELSE 0)]
           /\ Cardinality(ItemsOf(taken)) = Len(taken)
           /\ Len(taken) < N
           /\ ub' = ub
           /\ chunks' = chunks
           /\ remainder' = remainder
           /\ ret' = "Panic"
           /\ pc' = "idle" /\ ~armed']_vars

\* C1 witness: a chunk was returned, then a panic on the pull for the third
\* slot of the next chunk dropped the two items placed.
C1_Witness ==
    /\ N = 3 /\ ret = "Panic" /\ Len(chunks) = 1 /\ pos = 6
    /\ dropped[4] = 1 /\ dropped[5] = 1 /\ dropped[1] = 0

\* C2: for a finite input of length L, next returns chunks of N items, the
\* c-th holding the input items (c-1)*N+1 .. c*N in order; once the input is
\* used up next has returned None, and then exactly L div N chunks were
\* returned.
C2_ChunksThenEnd ==
    (PlainInput /\ N > 0)
    => /\ \A c \in 1 .. Len(chunks) :
              chunks[c] = [j \in Slots |-> (c - 1) * N + j + 1]
       /\ Len(chunks) <= InputLen \div N
       /\ (pos > InputLen) => ended
       /\ ended => /\ Len(chunks) = InputLen \div N
                   /\ pos > InputLen
       /\ (ended /\ pc = "idle" /\ pos > InputLen + 1) => ret = "None"

\* C2 witness: five items in chunks of two: two chunks, then None.
C2_Witness ==
    /\ PlainInput /\ N = 2 /\ InputLen = 5 /\ ended /\ ret = "None"
    /\ Len(chunks) = 2 /\ phase = "live"

\* C3: for a finite input whose length L is not a multiple of N, once next
\* has returned None, into_remainder returns a remainder whose next yields
\* the last L mod N input items in order and then None.
C3_RemainderYieldsTail ==
    (PlainInput /\ N > 0 /\ ended /\ phase = "consumed" /\ InputLen % N # 0)
    => LET tail == Interval(InputLen - (InputLen % N) + 1, InputLen)
       IN  /\ remPhase \in {"held", "dropped"}
           /\ Len(remOut) <= Len(tail)
           /\ remOut = SubSeq(tail, 1, Len(remOut))
           /\ remPhase = "held" => remOut \o Held(rem) = tail
           /\ (remPhase = "held" /\ remRet = "None") => remOut = tail
           /\ (remPhase = "held" /\ Len(remOut) < Len(tail)) => remRet # "None"

\* C3 witness: five items in chunks of three: the remainder yielded 4, 5 and
\* then None.
C3_Witness ==
    /\ PlainInput /\ N = 3 /\ InputLen = 5 /\ ended /\ phase = "consumed"
    /\ remPhase = "held" /\ remRet = "None" /\ remOut = <<4, 5>>

\* C4: round trip.  For a finite input, once next has returned None and the
\* remainder returned by into_remainder (if any) has been drained, the items
\* of the chunks followed by the items of the remainder are the input.
C4_RoundTrip ==
    (PlainInput /\ N > 0 /\ ended /\ phase = "consumed"
        /\ (remPhase = "none" \/ (remPhase = "held" /\ remRet = "None")))
    => Flatten(chunks) \o remOut = Interval(1, InputLen)

\* C4 witness: four items in chunks of three, drained: a chunk and one item.
C4_Witness ==
    /\ PlainInput /\ N = 3 /\ InputLen = 4 /\ ended /\ phase = "consumed"
    /\ remPhase = "held" /\ remRet = "None"
    /\ Len(chunks) = 1 /\ Len(remOut) = 1

\* A remainder is destroyed in this step: the one the caller holds is
\* dropped, or the one stored in the ConstChunks is dropped with it or is
\* replaced by the assignment of a new one.
CallerRemainderDropped == remPhase = "held" /\ remPhase' = "dropped"
StoredRemainderDropped ==
    /\ phase = "live" /\ remainder.some
    /\ \/ phase' = "dropped"
       \/ phase' = "live" /\ remainder' # remainder

\* What dropping remainder r in this step must do to the drop counts.
DroppedExactly(r) ==
    /\ dropped' = [id \in DOMAIN dropped |->
                      dropped[id] + (IF id \in ItemsOf(Held(r)) THEN 1 ELSE 0)]
    /\ Cardinality(ItemsOf(Held(r))) = r.end - r.start
    /\ Uninit \notin ItemsOf(Held(r))
    /\ ub' = ub

\* C5: whenever a remainder is destroyed, before any call of its next, after
\* some, or after all its items were taken, exactly the items still in
\* init_range are dropped, each once; an item its next returned is never
\* dropped, and of the items it was created with (for a finite input, the
\* last L mod N) each was returned or is dropped, none is lost.
C5_RemainderDropExact ==
    [][/\ CallerRemainderDropped =>
            /\ DroppedExactly(rem)
            /\ \A id \in ItemsOf(remOut') : dropped'[id] = 0
            /\ (PlainInput /\ N > 0) =>
                  \A id \in (InputLen - (InputLen % N) + 1) .. InputLen :
                      IF id \in ItemsOf(remOut') THEN dropped'[id] = 0
                                                 ELSE dropped'[id] = 1
       /\ StoredRemainderDropped => DroppedExactly(remainder)]_vars

\* C5 witness: a remainder of two items was dropped after its next returned
\* the first one.
C5_Witness ==
    /\ remPhase = "dropped" /\ remOut = <<1>> /\ remRet = "Some"
    /\ dropped[1] = 0 /\ dropped[2] = 1 /\ N = 3

\* C6 as stated: when the input ends exactly on a chunk boundary,
\* into_remainder returns a remainder, which is empty.
C6_BoundaryEmptyRemainder ==
    (PlainInput /\ N > 0 /\ ended /\ phase = "consumed" /\ InputLen % N = 0)
    => /\ remPhase \in {"held", "dropped"}
       /\ remOut = << >>
       /\ remRet # "Some"

\* C6 amended: when the input ends exactly on a chunk boundary (L a multiple
\* of N, L = 0 included) no remainder is stored: self.remainder is None after
\* next has returned None, and into_remainder returns None.
C6_BoundaryNoRemainder ==
    (PlainInput /\ N > 0 /\ ended /\ InputLen % N = 0)
    => /\ ~remainder.some
       /\ phase = "consumed" => (remPhase = "none" /\ remOut = << >>)

\* C6 witness: four items in chunks of two, then None, then into_remainder.
C6_Witness ==
    /\ PlainInput /\ N = 2 /\ InputLen = 4 /\ ended /\ Len(chunks) = 2
    /\ phase = "consumed" /\ remPhase = "none"

\* A step of next on a ConstChunks whose next has already returned None.
StepAfterEnd == ended /\ phase = "live" /\ phase' = "live"

\* C7 as stated: once next has returned None, every later call returns None,
\* returns no chunk, does not pull the inner iterator and leaves
\* self.remainder as it is.
C7_EndIsTerminal ==
    [][StepAfterEnd
        => /\ pos' = pos
           /\ ret' = "None"
           /\ chunks' = chunks
           /\ remainder' = remainder]_vars

\* C7 amended: once next has returned None, a later call of next pulls the
\* inner iterator again; when that pull yields None the call returns None,
\* returns no chunk, pulls no more, drops nothing and leaves self.remainder
\* as it is.
C7_EndRepeatsOnNone ==
    [][(StepAfterEnd /\ pc = "idle")
        => /\ pos' = pos + 1
           /\ script[pos + 1] = "none"
                => /\ ret' = "None"
                   /\ pc' = "idle"
                   /\ chunks' = chunks
                   /\ remainder' = remainder
                   /\ dropped' = dropped /\ ub' = ub]_vars

\* C7 witness: next returned None storing a remainder, and a later call
\* pulled None again and returned None with the remainder still stored.
C7_Witness ==
    /\ phase = "live" /\ pc = "idle" /\ ended /\ ret = "None"
    /\ pos >= 3 /\ script[pos] = "none" /\ script[pos - 1] = "none"
    /\ remainder.some /\ remainder.end = 1

\* C8: next returns a chunk only when the call in progress has pulled N
\* items by N consecutive pulls and placed them in slot order; every chunk
\* returned has all its slots filled; after the return the array and the
\* guard are gone, the items are in no stored remainder and none of them was
\* dropped.
C8_ChunkAtomic ==
    [][chunks' # chunks
        => /\ Len(taken) = N
           /\ taken = Interval(pos - N + 1, pos)
           /\ \A k \in 1 .. Len(taken) : script[taken[k]] = "item"
           /\ chunks' = Append(chunks, [j \in Slots |-> taken[j + 1]])
           /\ \A c \in 1 .. Len(chunks') : \A j \in Slots : chunks'[c][j] # Uninit
           /\ ret' = "Some" /\ pc' = "idle" /\ pos' = pos
           /\ array' = UninitArray /\ ~armed'
           /\ remainder' = remainder
           /\ \A id \in ItemsOf(taken) :
                 /\ id \notin ItemsOf(Held(remainder'))
                 /\ dropped'[id] = 0]_vars

\* C8 witness: a chunk of three was returned while a remainder is stored.
C8_Witness ==
    /\ N = 3 /\ ret = "Some" /\ Len(chunks) = 1 /\ remainder.some
    /\ chunks[1] = [j \in Slots |-> j + 3]

\* C9: const_chunks::<0>() is rejected for every input, and nothing is
\* pulled before the rejection; with N > 0 the value is built, without a pull.
C9_ZeroSizeRejected ==
    /\ N = 0 => (phase \in {"unbuilt", "rejected"} /\ pos = 0 /\ chunks = << >>)
    /\ N > 0 => phase # "rejected"
    /\ phase \in {"unbuilt", "rejected"} => pos = 0
    /\ (phase = "live" /\ ret = "-") => (pos = 0 /\ ~remainder.some)

\* C9 witness: a non-empty input and N = 0, rejected.
C9_Witness == N = 0 /\ phase = "rejected" /\ Len(script) > 0 /\ script[1] = "item"

\* An item is in a chunk that next has returned.
InChunks(id) == \E c \in 1 .. Len(chunks) : \E j \in Slots : chunks[c][j] = id

\* C10: into_remainder on a ConstChunks whose next has not returned None
\* yet, just built or after any number of chunks, returns None; and between
\* calls such a ConstChunks holds no item: every item pulled so far is in a
\* returned chunk, or was dropped once by an unwinding.
C10_EarlyRemainderNone ==
    /\ (phase = "consumed" /\ ~ended) => (remPhase = "none" /\ remOut = << >>)
    /\ (phase \in {"live", "consumed"} /\ pc = "idle" /\ ~ended)
       => /\ ~remainder.some
          /\ array = UninitArray /\ ~armed
          /\ \A p \in 1 .. pos :
                script[p] = "item"
                   => IF InChunks(p) THEN dropped[p] = 0 ELSE dropped[p] = 1

\* C10 witness: into_remainder after two chunks, before any None.
C10_Witness ==
    /\ phase = "consumed" /\ ~ended /\ remPhase = "none"
    /\ Len(chunks) = 2 /\ ret = "Some"

\* A call of the next of the remainder the caller holds.
RemainderNextStep == remPhase = "held" /\ remPhase' = "held"

\* C11: each call of the remainder's next on a non-empty init_range returns
\* the item at init_range.start and adds one to start, leaving end as it is;
\* on an empty range it returns None and changes nothing, so the range stays
\* empty; a remainder created with k items has returned start items so far,
\* all different, and k of them once it returns None.
C11_RemainderNextOneShot ==
    [][RemainderNextStep
        => /\ IF rem.start < rem.end
              THEN /\ remRet' = "Some"
                   /\ remOut' = Append(remOut, rem.remainder_chunk[rem.start])
                   /\ rem.remainder_chunk[rem.start] # Uninit
                   /\ rem.remainder_chunk[rem.start] \notin ItemsOf(remOut)
                   /\ rem'.start = rem.start + 1
              ELSE /\ remRet' = "None"
                   /\ remOut' = remOut
                   /\ rem'.start = rem.start
           /\ rem'.end = rem.end
           /\ rem'.start <= rem'.end
           /\ Len(remOut') = rem'.start
           /\ Cardinality(ItemsOf(remOut')) = Len(remOut')
           /\ remRet' = "None" => Len(remOut') = rem.end
           /\ dropped' = dropped /\ ub' = ub]_vars

\* C11 witness: a remainder of two items returned both, then None.
C11_Witness ==
    /\ remPhase = "held" /\ remRet = "None" /\ Len(remOut) = 2
    /\ rem.start = 2 /\ rem.end = 2

\* The pulls of the call of next in progress: none between calls, 1 .. N-1 of
\* them inside the loop, N after it, and they are the latest pulls of the
\* inner iterator, one after the other.
CallShape ==
    /\ pc = "idle" => taken = << >>
    /\ pc = "loop" => (1 <= Len(taken) /\ Len(taken) < N)
    /\ pc = "full" => Len(taken) = N
    /\ taken = Interval(pos - Len(taken) + 1, pos)

\* C12: a call of next pulls the inner iterator at most N times; it returns a
\* chunk after exactly N pulls, with the inner iterator left just after the
\* N-th item, from where the following call goes on; when a pull yields None
\* the call pulls no more and returns None, the fewer than N items pulled
\* being in no chunk; for a finite input, the input is then used up.
C12_PullsPerCall ==
    [][/\ CallShape'
       /\ pos' \in {pos, pos + 1}
       /\ chunks' # chunks
            => /\ Len(taken) = N
               /\ pos' = pos
               /\ chunks'[Len(chunks')][N - 1] = pos
       /\ (phase = "live" /\ pos' = pos + 1 /\ script[pos + 1] = "none")
            => /\ Len(taken) < N
               /\ ret' = "None" /\ pc' = "idle"
               /\ chunks' = chunks
               /\ \A id \in ItemsOf(taken) :
                     \A c \in 1 .. Len(chunks') : \A j \in Slots : chunks'[c][j] # id
       /\ (PlainInput /\ ended') => pos' > InputLen]_vars

\* C12 witness: five items in chunks of three: three pulls and a chunk, then
\* two items and a None, which ends the call with the two items in no chunk.
C12_Witness ==
    /\ PlainInput /\ N = 3 /\ pos = 6 /\ ret = "None" /\ pc = "idle"
    /\ Len(chunks) = 1 /\ remainder.some /\ remainder.end = 2

\* q is n divided by N, rounded down.
IsFloorOfDiv(q, n) == q * N <= n /\ n < (q + 1) * N

\* The upper bounds an inner size_hint can report.
UpperHints == {NoneUsize} \cup { SomeUsize(n) : n \in 0 .. MaxHint }

\* C13: for any bounds (lo, hi) the inner iterator reports, size_hint
\* returns lo and hi divided by N rounding down, an absent hi staying
\* absent; and for a finite input, between calls, len() is the remaining
\* count divided by N rounding down, which is the number of chunks next has
\* yet to return: with the chunks already returned it makes L div N, and it
\* is 0 once next has returned None.
C13_SizeHintAndLen ==
    phase = "live"
    => /\ \A lo \in 0 .. MaxHint : \A hi \in UpperHints :
             LET h == size_hint(lo, hi)
             IN  /\ IsFloorOfDiv(h.lower, lo)
                 /\ h.upper.some = hi.some
                 /\ hi.some => IsFloorOfDiv(h.upper.val, hi.val)
       /\ (PlainInput /\ pc = "idle")
             => LET l == ConstChunks_len(inner_len)
                IN  /\ IsFloorOfDiv(l, inner_len)
                    /\ size_hint(inner_len, SomeUsize(inner_len))
                          = [lower |-> l, upper |-> SomeUsize(l)]
                    /\ IsFloorOfDiv(Len(chunks) + l, InputLen)
                    /\ ended => l = 0

\* C13 witness: five items in chunks of two, after the first chunk: three
\* items remain and len() is 1.
C13_Witness ==
    /\ PlainInput /\ N = 2 /\ InputLen = 5 /\ phase = "live" /\ pc = "idle"
    /\ Len(chunks) = 1 /\ inner_len = 3 /\ ConstChunks_len(inner_len) = 1
    /\ size_hint(3, NoneUsize) = [lower |-> 1, upper |-> NoneUsize]

\* Who answers for dropping item id: the armed guard (the slots below
\* `initialized` of the array), a returned chunk (the caller), the remainder
\* stored in the ConstChunks, the remainder the caller holds.
GuardOwns(id) == armed /\ \E j \in Range(0, initialized) : array[j] = id
ChunkOwns(id) == InChunks(id)
StoredOwns(id) == remainder.some /\ id \in ItemsOf(Held(remainder))
CallerOwns(id) == remPhase = "held" /\ id \in ItemsOf(Held(rem))
Owners(id) ==
    (IF GuardOwns(id) THEN 1 ELSE 0) + (IF ChunkOwns(id) THEN 1 ELSE 0)
        + (IF StoredOwns(id) THEN 1 ELSE 0) + (IF CallerOwns(id) THEN 1 ELSE 0)

\* Every item pulled that is still in a buffer has one owner; an item that
\* was dropped or moved out by the remainder's next has none; no slot outside
\* the guard's or a remainder's range is filled.
SingleOwner ==
    /\ \A p \in 1 .. pos :
          script[p] = "item"
             => IF dropped[p] = 0 /\ p \notin ItemsOf(remOut)
                THEN Owners(p) = 1
                ELSE Owners(p) = 0 /\ dropped[p] + (IF p \in ItemsOf(remOut) THEN 1 ELSE 0) = 1
    /\ ~armed => array = UninitArray
    /\ \A j \in Slots :
          /\ (armed /\ j >= initialized) => array[j] = Uninit
          /\ (j < remainder.start \/ j >= remainder.end)
                => remainder.remainder_chunk[j] = Uninit
          /\ (j < rem.start \/ j >= rem.end) => rem.remainder_chunk[j] = Uninit

\* The three ways a guard ends: the array is full and becomes a chunk; the
\* inner iterator yields None and the array moves into self.remainder with
\* range 0..k; inner.next() panics and the guard's drop runs.
GuardEndsInChunk ==
    /\ pc = "full" /\ initialized = N /\ pos' = pos
    /\ chunks' = Append(chunks, array)
    /\ remainder' = remainder
    /\ dropped' = dropped
GuardEndsInRemainder ==
    /\ pc = "loop" /\ pos' = pos + 1 /\ script[pos + 1] = "none"
    /\ 0 < initialized /\ initialized < N
    /\ remainder' = [some |-> TRUE, remainder_chunk |-> array,
                     start |-> 0, end |-> initialized]
    /\ chunks' = chunks
    /\ \A id \in ItemsOf(taken) : dropped'[id] = 0
GuardEndsInDrop ==
    /\ pc = "loop" /\ pos' = pos + 1 /\ script[pos + 1] = "panic"
    /\ chunks' = chunks
    /\ remainder' = remainder
    /\ \A id \in ItemsOf(taken) : dropped'[id] = 1

\* C14: in every state each filled slot has exactly one owner among the
\* armed guard, a returned chunk and a remainder; a guard is created by the
\* first item of a call and ends in exactly one of three ways: disarmed as
\* the full array becomes a chunk, disarmed as the array moves into the
\* remainder with range 0..k, or by its own drop when the pull panics.
C14_SingleOwner ==
    [][/\ SingleOwner'
       /\ (~armed /\ armed') => (pc = "idle" /\ initialized' = 1 /\ taken' = <<pos'>>)
       /\ (armed /\ ~armed')
            => \/ GuardEndsInChunk
               \/ GuardEndsInRemainder
               \/ GuardEndsInDrop
       /\ (armed /\ armed') => (pc = "loop" /\ initialized' = initialized + 1)]_vars

\* C14 witness: one guard ended in a chunk, a second in the stored
\* remainder, and a third is armed over one item.
C14_Witness ==
    /\ N = 2 /\ Len(chunks) = 1 /\ remainder.some /\ armed /\ initialized = 1
    /\ Owners(1) = 1 /\ Owners(3) = 1 /\ Owners(5) = 1
    /\ ChunkOwns(1) /\ StoredOwns(3) /\ GuardOwns(5)

\* The range of remainder r lies in 0 .. N-1 and exactly its slots hold an
\* item.
RangeInv(r) ==
    r.some
    => /\ 0 <= r.start /\ r.start <= r.end /\ r.end <= N - 1
       /\ \A j \in Slots :
             (r.remainder_chunk[j] # Uninit) <=> (r.start <= j /\ j < r.end)

\* C15: every remainder, stored in the ConstChunks or held by the caller,
\* has 0 <= start <= end <= N-1, its slots start .. end-1 hold an item and
\* its other slots none; it is created with start = 0 and end = k, the
\* number of items the call had placed when the inner iterator yielded None,
\* with 0 < k < N, holding those items in slot order; the stored one is
\* never advanced.
C15_RemainderRange ==
    [][/\ RangeInv(remainder') /\ RangeInv(rem')
       /\ remainder'.some => (remainder'.start = 0 /\ 0 < remainder'.end)
       /\ remPhase' = "held" => (rem'.some /\ 0 < rem'.end)
       /\ (remainder' # remainder /\ remainder'.some)
            => /\ script[pos'] = "none"
               /\ remainder'.start = 0
               /\ remainder'.end = Len(taken)
               /\ 0 < Len(taken) /\ Len(taken) < N
               /\ \A j \in Slots :
                     remainder'.remainder_chunk[j]
                        = IF j < Len(taken) THEN taken[j + 1] ELSE Uninit
       /\ (remPhase = "unclaimed" /\ remPhase' = "held") => rem' = remainder]_vars

\* C15 witness: a remainder created with two of three slots filled, of which
\* the caller has taken one: start = 1, end = 2 = N - 1.
C15_Witness ==
    /\ N = 3 /\ remPhase = "held" /\ rem.start = 1 /\ rem.end = 2
    /\ rem.remainder_chunk[0] = Uninit /\ rem.remainder_chunk[1] # Uninit
    /\ rem.remainder_chunk[2] = Uninit

\* The ConstChunks and any remainder are gone, no call being in progress.
AllGone ==
    \/ phase = "dropped"
    \/ phase = "consumed" /\ remPhase \in {"none", "dropped"}

\* The number of times item id was handed to the caller: in a chunk, or by
\* the remainder's next.
HandedOut(id) ==
    Cardinality({ cj \in (1 .. Len(chunks)) \X Slots : chunks[cj[1]][cj[2]] = id })
        + Cardinality({ k \in 1 .. Len(remOut) : remOut[k] = id })

\* C16: conservation.  For any inner iterator (one that panics, one that
\* yields again after None) and any order of next, into_remainder, the
\* remainder's next and the drops, once the ConstChunks and any remainder
\* are gone every item pulled was handed to the caller once or dropped once,
\* never both, never neither, and no empty slot was dropped or read.
C16_Conservation ==
    AllGone
    => /\ \A p \in 1 .. pos :
             script[p] = "item" => HandedOut(p) + dropped[p] = 1
       /\ \A p \in 1 .. Len(script) :
             (p > pos \/ script[p] # "item") => (HandedOut(p) = 0 /\ dropped[p] = 0)
       /\ ~ub

\* C16 witness: a remainder was stored, replaced by a later one, and the
\* ConstChunks dropped unclaimed: items 1 and 3 were each dropped once.
C16_Witness ==
    /\ N = 2 /\ phase = "dropped" /\ pos = 4
    /\ script[2] = "none" /\ script[4] = "none"
    /\ dropped[1] = 1 /\ dropped[3] = 1

\* While a guard is live: 0 <= initialized <= N, the slots below
\* `initialized` are filled and the others empty, and `initialized` is the
\* number of items placed through the guard.
GuardInv ==
    armed
    => /\ 0 <= initialized /\ initialized <= N
       /\ initialized = Len(taken)
       /\ \A j \in Slots : (array[j] # Uninit) <=> (j < initialized)

\* C17: the guard invariant holds while a guard is live; every placement
\* writes the item just pulled into slot `initialized` (slot 0 of a fresh
\* array for a new guard), which is below N and was empty, leaves the other
\* slots alone and adds one to `initialized`; at most N items are placed
\* through one guard.
C17_GuardInvariant ==
    [][/\ GuardInv'
       /\ (armed' /\ (array' # array \/ initialized' # initialized \/ ~armed))
            => LET at == IF armed THEN initialized ELSE 0
               IN  /\ pos' = pos + 1 /\ script[pos'] = "item"
                   /\ at < N
                   /\ array[at] = Uninit
                   /\ array' = [array EXCEPT ![at] = pos']
                   /\ initialized' = at + 1
                   /\ Len(taken') = at + 1 /\ Len(taken') <= N]_vars

\* C17 witness: N items were placed through one guard, which is still live.
C17_Witness ==
    /\ N = 3 /\ armed /\ pc = "full" /\ initialized = 3
    /\ array = [j \in Slots |-> j + 1]
====
